---- MODULE Spec2Model ----
(***************************************************************************)
(* Authentication state machine of the NN Auth System.                     *)
(*                                                                         *)
(* Browser side (fe/src): the AuthProvider session controller, the shared  *)
(* axios client with its request interceptor, and ProtectedRoute.          *)
(* Server side (be/, documented in _docs/RFs): JWT issue/verify, login,    *)
(* profile lookup and the password-reset token lifecycle.                  *)
(*                                                                         *)
(* Every step between two awaits of an async function is one action; the   *)
(* React render that follows a batch of setState calls is part of it.      *)
(***************************************************************************)
EXTENDS Integers, Sequences, FiniteSets, TLC

VARIABLES
    sessionStorage,   \* browser sessionStorage: access_token, refresh_token
    user,             \* useState<UserResponse | null>
    accessToken,      \* useState<string | null>
    refreshToken,     \* useState<string | null>
    isLoading,        \* useState<boolean>(true)
    isAuthenticated,  \* context value derived at render
    protectedView,    \* what <ProtectedRoute> returned at the last render
    strictDev,        \* TRUE: development build, StrictMode re-runs effects
    mounted,          \* the AuthProvider mount effect has run
    bootPc,           \* position of each verifySession() invocation
    bootHdr,          \* Authorization header of its GET /users/me
    bootOutcome,      \* how each verifySession() invocation ended
    loginPc,          \* position of the login() call in flight
    loginData,        \* LoginRequest of that call
    loginHdr,         \* Authorization header of its request in flight
    loginOutcome,     \* how the last login() call ended
    loginCount,       \* number of login() calls made
    lastOp,           \* the handler step that ran last
    now,              \* server clock, minutes
    accounts,         \* users table: email -> hashed_password, is_active
    resetTokens,      \* password_reset_tokens table
    resetCalls,       \* POST /auth/reset-password calls and their results
    wallet,           \* tokens an API caller has been issued
    srvCall,          \* the last API call the server answered, with its answer
    page,             \* the route element on screen
    urlToken,         \* token query parameter of /reset-password
    forms,            \* component state of each form page
    formReqs,         \* auth actions awaited by form submit handlers
    loginFor,         \* the form awaiting the login() call in flight
    localTheme,       \* localStorage item "theme", shared by the tabs of the origin
    osDark,           \* matchMedia("(prefers-color-scheme: dark)").matches
    themeTabs,        \* per tab: ThemeToggle state and the class of <html>
    themeTab          \* the tab of the last theme step

vars == <<sessionStorage, user, accessToken, refreshToken, isLoading,
          isAuthenticated, protectedView, strictDev, mounted, bootPc, bootHdr,
          bootOutcome, loginPc, loginData, loginHdr, loginOutcome, loginCount,
          lastOp, now, accounts, resetTokens, resetCalls, wallet, srvCall,
          page, urlToken, forms, formReqs, loginFor,
          localTheme, osDark, themeTabs, themeTab>>

clientVars == <<sessionStorage, user, accessToken, refreshToken, isLoading,
                isAuthenticated, protectedView, strictDev, mounted, bootPc,
                bootHdr, bootOutcome, loginPc, loginData, loginHdr,
                loginOutcome, loginCount, lastOp>>

resetVars == <<resetTokens, resetCalls>>

apiVars == <<wallet, srvCall>>

formVars == <<page, urlToken, forms, formReqs, loginFor>>

themeVars == <<localTheme, osDark, themeTabs, themeTab>>

(***************************************************************************)
(* Bounds                                                                  *)
(***************************************************************************)
MaxLogins == 2
MaxResetTokens == 2
MaxResetCalls == 2
MaxWallet == 4
MaxPasswordTokens == 2
MaxPasswordResets == 1
MaxFormReqs == 2

MaxFormLogins == 1

MaxFormResets == 1

MaxClicks == 3

MaxLoads == 2

(***************************************************************************)
(* Values                                                                  *)
(***************************************************************************)
Null == "null"

Range(f) == {f[x] : x \in DOMAIN f}

NullTok == [kind |-> "null", sub |-> "null", exp |-> 0]

Emails == {"ana@example.com", "luis@example.com"}

\* Passwords are sequences of characters.
PwOld == <<"O", "l", "d", "p", "a", "s", "s", "1">>
PwNew == <<"N", "e", "w", "p", "a", "s", "s", "2">>
PwAlt == <<"A", "l", "t", "p", "a", "s", "s", "3">>
PwShort == <<"S", "h", "o", "r", "t", "p", "7">>
PwNoUpper == <<"n", "o", "u", "p", "p", "e", "r", "4">>
PwNoLower == <<"N", "O", "L", "O", "W", "E", "R", "5">>
PwNoDigit == <<"N", "o", "d", "i", "g", "i", "t", "s">>

Passwords == {PwOld, PwNew, PwAlt, PwShort}

UpperChars ==
    {"A", "B", "C", "D", "E", "F", "G", "H", "I", "J", "K", "L", "M", "N", "O", "P", "Q",
     "R", "S", "T", "U", "V", "W", "X", "Y", "Z"}
DigitChars == {"0", "1", "2", "3", "4", "5", "6", "7", "8", "9"}
LowerChars ==
    {"a", "b", "c", "d", "e", "f", "g", "h", "i", "j", "k", "l", "m", "n", "o", "p", "q",
     "r", "s", "t", "u", "v", "w", "x", "y", "z"}

(***************************************************************************)
(* Server: password hashing, JWT issue and verification                    *)
(***************************************************************************)
AccessTTL == 15
RefreshTTL == 10080
ResetTTL == 60

HashPassword(plain) == [bcrypt |-> plain]

VerifyPassword(plain, hashed) == hashed = [bcrypt |-> plain]

ValidatePasswordStrength(p) ==
    /\ Len(p) >= 8
    /\ \E i \in 1..Len(p) : p[i] \in UpperChars
    /\ \E i \in 1..Len(p) : p[i] \in LowerChars
    /\ \E i \in 1..Len(p) : p[i] \in DigitChars

CreateAccessToken(sub, t) == [kind |-> "access", sub |-> sub, exp |-> t + AccessTTL]

CreateRefreshToken(sub, t) == [kind |-> "refresh", sub |-> sub, exp |-> t + RefreshTTL]

\* faulty variant: the type claim is not compared
VerifyTokenAnyKind(tok, expectedKind, t) == t < tok.exp

\* decode + signature + exp + type check: valid strictly before exp
VerifyToken(tok, expectedKind, t) ==
    /\ tok.kind = expectedKind
    /\ t < tok.exp

UserActive(email) ==
    /\ email \in DOMAIN accounts
    /\ accounts[email].is_active

\* POST /auth/login
AuthenticateUser(email, password) ==
    /\ UserActive(email)
    /\ VerifyPassword(password, accounts[email].hashed_password)

\* get_current_user dependency of GET /users/me
NoAuthorization == [scheme |-> "none", token |-> NullTok]

GetCurrentUser(hdr, t) ==
    IF /\ hdr.scheme = "Bearer"
       /\ VerifyToken(hdr.token, "access", t)
       /\ UserActive(hdr.token.sub)
    THEN hdr.token.sub
    ELSE Null

(***************************************************************************)
(* Client: axios request interceptor                                       *)
(***************************************************************************)
\* reads sessionStorage at send time; no header when the item is absent
RequestInterceptor(storage) ==
    IF storage["access_token"] # NullTok
    THEN [scheme |-> "Bearer", token |-> storage["access_token"]]
    ELSE NoAuthorization

\* Array.prototype.join(". ")
RECURSIVE Join(_)
Join(msgs) ==
    IF Len(msgs) = 0 THEN ""
    ELSE IF Len(msgs) = 1 THEN msgs[1]
    ELSE msgs[1] \o ". " \o Join(Tail(msgs))

\* the message axios gives an error before the interceptor runs
AxiosMessage(error) ==
    IF error.response
    THEN "Request failed with status code " \o error.status
    ELSE "Network Error"

\* response interceptor, rejection branch: error.message after it ran.
\* error.response / error.request tell whether an answer came back
ResponseInterceptor(error) ==
    IF error.response
    THEN IF error.status = "422" /\ error.detail.type = "array"
         THEN Join([i \in DOMAIN error.detail.value |-> error.detail.value[i].msg])
         ELSE IF error.detail.type = "string"
         THEN error.detail.value
         ELSE AxiosMessage(error)
    ELSE IF error.request
    THEN "No se pudo conectar con el servidor"
    ELSE AxiosMessage(error)

\* the AxiosError of an answer with a 4xx/5xx status
HttpError(status, detail) ==
    [response |-> TRUE, request |-> TRUE, status |-> status, detail |-> detail]

(***************************************************************************)
(* Client: derived values computed at render                               *)
(***************************************************************************)
\* faulty variant: the access token is not consulted
IsAuthenticatedUserOnly(u, at) == u # Null

IsAuthenticated(u, at) == u # Null /\ at # NullTok

\* faulty variant: the authentication check is missing
ProtectedRouteNoAuthCheck(loading, authed) ==
    IF loading THEN "spinner" ELSE "children"

ProtectedRoute(loading, authed) ==
    IF loading THEN "spinner"
    ELSE IF ~authed THEN "redirect"
    ELSE "children"

\* the render React commits after the state updates of a handler
Render ==
    /\ isAuthenticated' = IsAuthenticated(user', accessToken')
    /\ protectedView' = ProtectedRoute(isLoading', IsAuthenticated(user', accessToken'))

(***************************************************************************)
(* Client: saveTokens / clearAuth                                          *)
(***************************************************************************)
\* faulty variant: the tokens are not written to sessionStorage
SaveTokensStateOnly(access, refresh) ==
    /\ sessionStorage' = sessionStorage
    /\ accessToken' = access
    /\ refreshToken' = refresh

SaveTokens(access, refresh) ==
    /\ sessionStorage' = [access_token |-> access, refresh_token |-> refresh]
    /\ accessToken' = access
    /\ refreshToken' = refresh

\* faulty variant: refresh_token is left in sessionStorage
ClearAuthKeepsRefresh ==
    /\ sessionStorage' = [sessionStorage EXCEPT !["access_token"] = NullTok]
    /\ accessToken' = NullTok
    /\ refreshToken' = NullTok
    /\ user' = Null

\* faulty variant: the cached profile is not reset
ClearAuthKeepsUser ==
    /\ sessionStorage' = [access_token |-> NullTok, refresh_token |-> NullTok]
    /\ accessToken' = NullTok
    /\ refreshToken' = NullTok
    /\ user' = user

ClearAuth ==
    /\ sessionStorage' = [access_token |-> NullTok, refresh_token |-> NullTok]
    /\ accessToken' = NullTok
    /\ refreshToken' = NullTok
    /\ user' = Null

(***************************************************************************)
(* Initial state: a page load                                              *)
(***************************************************************************)
BootIds == 1..2

\* sessionStorage as a previous page load of the same tab left it:
\* empty, or the token pair of a login made issuedAt minutes ago
PersistedStorages ==
    {[access_token |-> NullTok, refresh_token |-> NullTok]} \cup
    {[access_token |-> CreateAccessToken(e, t), refresh_token |-> CreateRefreshToken(e, t)] :
        e \in Emails, t \in {0, 0 - AccessTTL}}

InitAccounts ==
    [e \in Emails |-> [hashed_password |-> HashPassword(PwOld), is_active |-> TRUE]]

InitClient ==
    /\ sessionStorage \in PersistedStorages
    /\ user = Null
    /\ accessToken = sessionStorage["access_token"]
    /\ refreshToken = sessionStorage["refresh_token"]
    /\ isLoading = TRUE
    /\ isAuthenticated = IsAuthenticated(user, accessToken)
    /\ protectedView = ProtectedRoute(isLoading, isAuthenticated)
    /\ strictDev \in BOOLEAN
    /\ mounted = FALSE
    /\ bootPc = [i \in BootIds |-> "unused"]
    /\ bootHdr = [i \in BootIds |-> NoAuthorization]
    /\ bootOutcome = [i \in BootIds |-> "none"]
    /\ loginPc = "idle"
    /\ loginData = [email |-> Null, password |-> <<>>]
    /\ loginHdr = NoAuthorization
    /\ loginOutcome = "none"
    /\ loginCount = 0
    /\ lastOp = "load"

\* no API call answered yet
NoCall ==
    [endpoint |-> "none", input |-> Null, status |-> "none", detail |-> Null,
     body |-> Null]

FormNames == {"login", "register", "changePassword", "forgotPassword", "resetPassword"}

Pages == FormNames \cup {"dashboard"}

\* /reset-password opened without ?token=
NoUrlToken == 0

NoFormData == [email |-> ""]

\* useState initial values of a form page: fields as last submitted (empty),
\* no field errors, no alert, not loading
FreshForm ==
    [formData |-> NoFormData, errors |-> {}, generalError |-> Null, success |-> Null,
     isLoading |-> FALSE]

NoCaller == "none"

\* browser tabs of the origin that show the application
Tabs == 1..2

\* a tab that shows no page of the application
ClosedTab == [mounted |-> FALSE, isDark |-> FALSE, htmlDark |-> FALSE, clicks |-> 0,
              loads |-> 0, trail |-> <<>>]

Init ==
    /\ InitClient
    /\ now = 0
    /\ accounts = InitAccounts
    /\ resetTokens = <<>>
    /\ resetCalls = <<>>
    /\ wallet = {}
    /\ srvCall = NoCall
    /\ page = "login"
    /\ urlToken = NoUrlToken
    /\ forms = [f \in FormNames |-> FreshForm]
    /\ formReqs = <<>>
    /\ loginFor = NoCaller
    /\ localTheme = Null
    /\ osDark = FALSE
    /\ themeTabs = [t \in Tabs |-> ClosedTab]
    /\ themeTab = 0

(***************************************************************************)
(* Client: useEffect(verifySession)                                        *)
(***************************************************************************)
\* number of times React runs the mount effect
EffectRuns == IF strictDev THEN 2 ELSE 1

\* the mount effect: each run calls verifySession(), which returns at once
\* without a stored token and otherwise sends GET /users/me
Mount ==
    /\ ~mounted
    /\ mounted' = TRUE
    /\ LET stored == sessionStorage["access_token"] IN
       IF stored = NullTok
       THEN /\ isLoading' = FALSE
            /\ bootPc' = [i \in BootIds |-> IF i <= EffectRuns THEN "done" ELSE "unused"]
            /\ bootOutcome' = [i \in BootIds |-> IF i <= EffectRuns THEN "noToken" ELSE "none"]
            /\ UNCHANGED bootHdr
       ELSE /\ isLoading' = isLoading
            /\ bootPc' = [i \in BootIds |-> IF i <= EffectRuns THEN "awaitMe" ELSE "unused"]
            /\ bootHdr' = [i \in BootIds |->
                            IF i <= EffectRuns THEN RequestInterceptor(sessionStorage)
                            ELSE NoAuthorization]
            /\ UNCHANGED bootOutcome
    /\ UNCHANGED <<sessionStorage, user, accessToken, refreshToken, strictDev>>
    /\ Render
    /\ UNCHANGED <<loginPc, loginData, loginHdr, loginOutcome, loginCount>>
    /\ lastOp' = "mount"
    /\ UNCHANGED <<now, accounts, resetVars, apiVars, formVars, themeVars>>

\* GET /users/me of verifySession answered 200: setUser, setIsLoading(false)
BootMeOk(i) ==
    /\ bootPc[i] = "awaitMe"
    /\ GetCurrentUser(bootHdr[i], now) # Null
    /\ user' = GetCurrentUser(bootHdr[i], now)
    /\ isLoading' = FALSE
    /\ bootPc' = [bootPc EXCEPT ![i] = "done"]
    /\ bootOutcome' = [bootOutcome EXCEPT ![i] = "ok"]
    /\ UNCHANGED <<sessionStorage, accessToken, refreshToken, strictDev, mounted, bootHdr>>
    /\ Render
    /\ UNCHANGED <<loginPc, loginData, loginHdr, loginOutcome, loginCount>>
    /\ lastOp' = "bootMeOk"
    /\ UNCHANGED <<now, accounts, resetVars, apiVars, formVars, themeVars>>

\* GET /users/me of verifySession rejected (401, or no response):
\* clearAuth, setIsLoading(false)
BootMeFail(i) ==
    /\ bootPc[i] = "awaitMe"
    /\ \E cause \in {"401", "network"} :
        /\ cause = "401" => GetCurrentUser(bootHdr[i], now) = Null
        /\ bootOutcome' = [bootOutcome EXCEPT ![i] = cause]
    /\ ClearAuth
    /\ isLoading' = FALSE
    /\ bootPc' = [bootPc EXCEPT ![i] = "done"]
    /\ UNCHANGED <<strictDev, mounted, bootHdr>>
    /\ Render
    /\ UNCHANGED <<loginPc, loginData, loginHdr, loginOutcome, loginCount>>
    /\ lastOp' = "bootMeFail"
    /\ UNCHANGED <<now, accounts, resetVars, apiVars, formVars, themeVars>>

(***************************************************************************)
(* Client: login() and logout()                                            *)
(***************************************************************************)
LoginInputs ==
    {[email |-> e, password |-> p] : e \in Emails, p \in {PwOld, PwNew}}

\* LoginPage.handleSubmit -> login(data): POST /auth/login is sent
LoginCall(data) ==
    /\ mounted
    /\ loginPc = "idle"
    /\ loginCount < MaxLogins
    /\ loginPc' = "awaitLogin"
    /\ loginData' = data
    /\ loginHdr' = RequestInterceptor(sessionStorage)
    /\ loginOutcome' = "pending"
    /\ loginCount' = loginCount + 1
    /\ UNCHANGED <<sessionStorage, user, accessToken, refreshToken, isLoading,
                   isAuthenticated, protectedView, strictDev, mounted, bootPc,
                   bootHdr, bootOutcome>>

\* the login form is submitted; the page's own state is left out here
LoginSubmit(data) ==
    /\ LoginCall(data)
    /\ lastOp' = "loginSubmit"
    /\ UNCHANGED <<now, accounts, resetVars, apiVars, formVars, themeVars>>

\* POST /auth/login answered 200: saveTokens, then GET /users/me is sent
LoginOk ==
    /\ loginPc = "awaitLogin"
    /\ AuthenticateUser(loginData.email, loginData.password)
    /\ SaveTokens(CreateAccessToken(loginData.email, now),
                  CreateRefreshToken(loginData.email, now))
    /\ loginPc' = "awaitMe"
    /\ loginHdr' = RequestInterceptor(sessionStorage')
    /\ UNCHANGED <<user, isLoading, strictDev, mounted, bootPc, bootHdr, bootOutcome,
                   loginData, loginOutcome, loginCount>>
    /\ Render
    /\ lastOp' = "loginOk"
    /\ UNCHANGED <<now, accounts, resetVars, apiVars, formVars, themeVars>>

\* POST /auth/login rejected (401, or no response): login() throws
LoginThrows(cause) ==
    /\ loginPc = "awaitLogin"
    /\ cause \in {"401", "network"}
    /\ cause = "401" => ~AuthenticateUser(loginData.email, loginData.password)
    /\ loginPc' = "idle"
    /\ loginHdr' = NoAuthorization
    /\ loginOutcome' = "rejectedLogin"
    /\ UNCHANGED <<sessionStorage, user, accessToken, refreshToken, isLoading,
                   isAuthenticated, protectedView, strictDev, mounted, bootPc,
                   bootHdr, bootOutcome, loginData, loginCount>>

LoginFail ==
    /\ \E cause \in {"401", "network"} : LoginThrows(cause)
    /\ lastOp' = "loginFail"
    /\ UNCHANGED <<now, accounts, resetVars, apiVars, formVars, themeVars>>

\* GET /users/me of login() answered 200: setUser, login() resolves
LoginResolves ==
    /\ loginPc = "awaitMe"
    /\ GetCurrentUser(loginHdr, now) # Null
    /\ user' = GetCurrentUser(loginHdr, now)
    /\ loginPc' = "idle"
    /\ loginHdr' = NoAuthorization
    /\ loginOutcome' = "resolved"
    /\ UNCHANGED <<sessionStorage, accessToken, refreshToken, isLoading, strictDev,
                   mounted, bootPc, bootHdr, bootOutcome, loginData, loginCount>>
    /\ Render

LoginMeOk ==
    /\ LoginResolves
    /\ lastOp' = "loginMeOk"
    /\ UNCHANGED <<now, accounts, resetVars, apiVars, formVars, themeVars>>

\* GET /users/me of login() rejected (401, or no response): login() throws
LoginProfileThrows(cause) ==
    /\ loginPc = "awaitMe"
    /\ cause \in {"401", "network"}
    /\ cause = "401" => GetCurrentUser(loginHdr, now) = Null
    /\ loginPc' = "idle"
    /\ loginHdr' = NoAuthorization
    /\ loginOutcome' = "rejectedMe"
    /\ UNCHANGED <<sessionStorage, user, accessToken, refreshToken, isLoading,
                   isAuthenticated, protectedView, strictDev, mounted, bootPc,
                   bootHdr, bootOutcome, loginData, loginCount>>

LoginMeFail ==
    /\ \E cause \in {"401", "network"} : LoginProfileThrows(cause)
    /\ lastOp' = "loginMeFail"
    /\ UNCHANGED <<now, accounts, resetVars, apiVars, formVars, themeVars>>

\* Navbar.handleLogout -> logout(): the Navbar is rendered only inside
\* <ProtectedRoute>, so the button exists only when children are shown
Logout ==
    /\ protectedView = "children"
    /\ ClearAuth
    /\ UNCHANGED <<isLoading, strictDev, mounted, bootPc, bootHdr, bootOutcome>>
    /\ Render
    /\ UNCHANGED <<loginPc, loginData, loginHdr, loginOutcome, loginCount>>
    /\ lastOp' = "logout"
    /\ UNCHANGED <<now, accounts, resetVars, apiVars, formVars, themeVars>>

(***************************************************************************)
(* Time                                                                    *)
(***************************************************************************)
\* tokens the client holds or has attached to a request in flight
ClientTokens ==
    {sessionStorage["access_token"], sessionStorage["refresh_token"], loginHdr.token}
        \cup {bootHdr[i].token : i \in BootIds}

\* the clock advances to the next instant at which some token expires
ExpiryInstants ==
    {t.exp : t \in (ClientTokens \cup wallet) \ {NullTok}}
        \cup {r.expires_at : r \in Range(resetTokens)}

Tick ==
    /\ \E t \in ExpiryInstants :
        /\ t > now
        /\ now' = t
    /\ UNCHANGED <<clientVars, accounts, resetVars, apiVars, formVars, themeVars>>

(***************************************************************************)
(* Server: password recovery (forgot-password, reset-password)             *)
(***************************************************************************)
ForgotInputs == Emails \cup {"nadie@example.com"}

ResetInputs ==
    {[token |-> k, new_password |-> p] : k \in 1..MaxResetTokens, p \in {PwNew, PwAlt, PwShort}}

\* POST /auth/forgot-password: a token row is created only for a registered,
\* active user; the answer is the same either way
ForgotPassword(email) ==
    /\ Len(resetTokens) < MaxResetTokens
    /\ resetTokens' =
        IF UserActive(email)
        THEN Append(resetTokens,
                    [user_id |-> email, expires_at |-> now + ResetTTL, used |-> FALSE])
        ELSE resetTokens
    /\ lastOp' = "forgotPassword"
    /\ UNCHANGED <<sessionStorage, user, accessToken, refreshToken, isLoading,
                   isAuthenticated, protectedView, strictDev, mounted, bootPc,
                   bootHdr, bootOutcome, loginPc, loginData, loginHdr,
                   loginOutcome, loginCount>>
    /\ UNCHANGED <<now, accounts, resetCalls, apiVars, formVars, themeVars>>

\* a caller sends POST /auth/reset-password {token, new_password}
ResetPasswordCall(data) ==
    /\ Len(resetCalls) < MaxResetCalls
    /\ resetCalls' = Append(resetCalls,
                            [token |-> data.token, new_password |-> data.new_password,
                             status |-> "pending"])
    /\ lastOp' = "resetPasswordCall"
    /\ UNCHANGED <<sessionStorage, user, accessToken, refreshToken, isLoading,
                   isAuthenticated, protectedView, strictDev, mounted, bootPc,
                   bootHdr, bootOutcome, loginPc, loginData, loginHdr,
                   loginOutcome, loginCount>>
    /\ UNCHANGED <<now, accounts, resetTokens, apiVars, formVars, themeVars>>

\* faulty variant: the expiry instant itself still counts as valid
ResetTokenUsableAtExpiry(tok, t) ==
    /\ tok \in 1..Len(resetTokens)
    /\ ~resetTokens[tok].used
    /\ t <= resetTokens[tok].expires_at

\* the token row exists, is unused and is strictly before its expiry
ResetTokenUsable(tok, t) ==
    /\ tok \in 1..Len(resetTokens)
    /\ ~resetTokens[tok].used
    /\ t < resetTokens[tok].expires_at

\* faulty variant: the token row is not marked used
MarkTokenUsedNoop(tok) == resetTokens

MarkTokenUsed(tok) == [resetTokens EXCEPT ![tok].used = TRUE]

\* the server handles call k: 422 for a weak password; otherwise consume,
\* which updates the password and marks the token used in one atomic step,
\* or answers the uniform 400
ResetPassword(k) ==
    /\ k \in 1..Len(resetCalls)
    /\ resetCalls[k].status = "pending"
    /\ LET call == resetCalls[k] IN
       IF ~ValidatePasswordStrength(call.new_password)
       THEN /\ resetCalls' = [resetCalls EXCEPT ![k].status = "422"]
            /\ UNCHANGED <<accounts, resetTokens>>
       ELSE IF ResetTokenUsable(call.token, now)
       THEN /\ accounts' = [accounts EXCEPT
                    ![resetTokens[call.token].user_id].hashed_password =
                        HashPassword(call.new_password)]
            /\ resetTokens' = MarkTokenUsed(call.token)
            /\ resetCalls' = [resetCalls EXCEPT ![k].status = "200"]
       ELSE /\ resetCalls' = [resetCalls EXCEPT ![k].status = "400"]
            /\ UNCHANGED <<accounts, resetTokens>>
    /\ lastOp' = "resetPassword"
    /\ UNCHANGED <<sessionStorage, user, accessToken, refreshToken, isLoading,
                   isAuthenticated, protectedView, strictDev, mounted, bootPc,
                   bootHdr, bootOutcome, loginPc, loginData, loginHdr,
                   loginOutcome, loginCount>>
    /\ UNCHANGED <<now, apiVars, formVars, themeVars>>

(***************************************************************************)
(* Server: the REST endpoints as an API caller sees them.  Each call is    *)
(* answered in one step; srvCall keeps the call and its answer.            *)
(***************************************************************************)
ApiEmails == Emails \cup {"nadie@example.com"}

SrvLoginInputs ==
    {[email |-> e, password |-> p] : e \in ApiEmails, p \in {PwOld, PwNew}}

ChangePasswordInputs ==
    {[current_password |-> c, new_password |-> n] :
        c \in {PwOld, PwNew}, n \in {PwOld, PwNew, PwShort}}

\* an error body {"detail": "..."} and FastAPI's 422 body {"detail": [{msg}]}
TextDetail(s) == [type |-> "string", value |-> s]

ListDetail(msgs) == [type |-> "array", value |-> [i \in 1..Len(msgs) |-> [msg |-> msgs[i]]]]

NoDetail == [type |-> "undefined", value |-> Null]

NoBody == [message |-> Null]

Answer(status, detail, body) == [status |-> status, detail |-> detail, body |-> body]

WeakPasswordAnswer ==
    Answer("422", ListDetail(<<"Password does not meet the strength rules">>), NoBody)

NotAuthenticatedAnswer == Answer("401", TextDetail("Could not validate credentials"), NoBody)

\* faulty variant: an inactive account gets an answer of its own
LoginResponseTellsInactive(data, t) ==
    IF AuthenticateUser(data.email, data.password)
    THEN Answer("200", NoDetail,
                [access_token |-> CreateAccessToken(data.email, t),
                 refresh_token |-> CreateRefreshToken(data.email, t),
                 token_type |-> "bearer"])
    ELSE IF data.email \in DOMAIN accounts /\ ~accounts[data.email].is_active
    THEN Answer("403", TextDetail("Inactive user"), NoBody)
    ELSE Answer("401", TextDetail("Incorrect email or password"), NoBody)

\* POST /auth/login: unknown email, inactive account and wrong password all end
\* in the same 401
LoginResponse(data, t) ==
    IF AuthenticateUser(data.email, data.password)
    THEN Answer("200", NoDetail,
                [access_token |-> CreateAccessToken(data.email, t),
                 refresh_token |-> CreateRefreshToken(data.email, t),
                 token_type |-> "bearer"])
    ELSE Answer("401", TextDetail("Incorrect email or password"), NoBody)

\* GET /users/me
MeResponse(tok, t) ==
    LET sub == GetCurrentUser([scheme |-> "Bearer", token |-> tok], t) IN
    IF sub # Null
    THEN Answer("200", NoDetail, [email |-> sub, is_active |-> TRUE])
    ELSE NotAuthenticatedAnswer

\* faulty variant: the current password is not verified
ChangePasswordResponseSkipsCurrent(tok, data, t) ==
    LET sub == GetCurrentUser([scheme |-> "Bearer", token |-> tok], t) IN
    IF sub = Null
    THEN NotAuthenticatedAnswer
    ELSE IF ~ValidatePasswordStrength(data.new_password)
    THEN WeakPasswordAnswer
    ELSE Answer("200", NoDetail, [message |-> "Password changed successfully"])

\* POST /auth/change-password: authenticate, verify the current password,
\* validate the new one
ChangePasswordResponse(tok, data, t) ==
    LET sub == GetCurrentUser([scheme |-> "Bearer", token |-> tok], t) IN
    IF sub = Null
    THEN NotAuthenticatedAnswer
    ELSE IF ~VerifyPassword(data.current_password, accounts[sub].hashed_password)
    THEN Answer("400", TextDetail("Current password is incorrect"), NoBody)
    ELSE IF ~ValidatePasswordStrength(data.new_password)
    THEN WeakPasswordAnswer
    ELSE Answer("200", NoDetail, [message |-> "Password changed successfully"])

\* faulty variant: the subject's account is not looked up
RefreshResponseSkipsUser(tok, t) ==
    IF VerifyToken(tok, "refresh", t)
    THEN Answer("200", NoDetail,
                [access_token |-> CreateAccessToken(tok.sub, t), token_type |-> "bearer"])
    ELSE Answer("401", TextDetail("Invalid or expired refresh token"), NoBody)

\* POST /auth/refresh: a new access token only; no token table is written
RefreshResponse(tok, t) ==
    IF VerifyToken(tok, "refresh", t) /\ UserActive(tok.sub)
    THEN Answer("200", NoDetail,
                [access_token |-> CreateAccessToken(tok.sub, t), token_type |-> "bearer"])
    ELSE Answer("401", TextDetail("Invalid or expired refresh token"), NoBody)

\* POST /auth/reset-password
ResetPasswordResponse(data, t) ==
    IF ~ValidatePasswordStrength(data.new_password)
    THEN WeakPasswordAnswer
    ELSE IF ResetTokenUsable(data.token, t)
    THEN Answer("200", NoDetail, [message |-> "Password has been reset successfully"])
    ELSE Answer("400", TextDetail("Invalid or expired reset token"), NoBody)

Answered(endpoint, input, answer) ==
    [endpoint |-> endpoint, input |-> input, status |-> answer.status,
     detail |-> answer.detail, body |-> answer.body]

BrowserIdle ==
    UNCHANGED <<sessionStorage, user, accessToken, refreshToken, isLoading,
                isAuthenticated, protectedView, strictDev, mounted, bootPc,
                bootHdr, bootOutcome, loginPc, loginData, loginHdr,
                loginOutcome, loginCount, formVars, themeVars>>

SrvLogin(data) ==
    LET answer == LoginResponse(data, now) IN
    /\ wallet' = IF answer.status = "200"
                 THEN wallet \cup {answer.body.access_token, answer.body.refresh_token}
                 ELSE wallet
    /\ Cardinality(wallet') <= MaxWallet
    /\ srvCall' = Answered("login", data, answer)
    /\ lastOp' = "srvLogin"
    /\ BrowserIdle
    /\ UNCHANGED <<now, accounts, resetVars>>

SrvGetMe(tok) ==
    /\ tok \in wallet
    /\ srvCall' = Answered("me", [token |-> tok], MeResponse(tok, now))
    /\ lastOp' = "srvGetMe"
    /\ BrowserIdle
    /\ UNCHANGED <<now, accounts, resetVars, wallet>>

SrvChangePassword(tok, data) ==
    LET answer == ChangePasswordResponse(tok, data, now) IN
    /\ tok \in wallet
    /\ accounts' = IF answer.status = "200"
                   THEN [accounts EXCEPT ![tok.sub].hashed_password =
                                             HashPassword(data.new_password)]
                   ELSE accounts
    /\ srvCall' = Answered("changePassword",
                           [token |-> tok, current_password |-> data.current_password,
                            new_password |-> data.new_password], answer)
    /\ lastOp' = "srvChangePassword"
    /\ BrowserIdle
    /\ UNCHANGED <<now, resetVars, wallet>>

SrvRefresh(tok) ==
    LET answer == RefreshResponse(tok, now) IN
    /\ tok \in wallet
    /\ wallet' = IF answer.status = "200"
                 THEN wallet \cup {answer.body.access_token}
                 ELSE wallet
    /\ Cardinality(wallet') <= MaxWallet
    /\ srvCall' = Answered("refresh", [token |-> tok], answer)
    /\ lastOp' = "srvRefresh"
    /\ BrowserIdle
    /\ UNCHANGED <<now, accounts, resetVars>>

\* consume: the password update and the used mark are one transaction
SrvResetPassword(data) ==
    LET answer == ResetPasswordResponse(data, now) IN
    /\ IF answer.status = "200"
       THEN /\ accounts' = [accounts EXCEPT
                    ![resetTokens[data.token].user_id].hashed_password =
                        HashPassword(data.new_password)]
            /\ resetTokens' = MarkTokenUsed(data.token)
       ELSE UNCHANGED <<accounts, resetTokens>>
    /\ srvCall' = Answered("resetPassword", data, answer)
    /\ lastOp' = "srvResetPassword"
    /\ BrowserIdle
    /\ UNCHANGED <<now, resetCalls, wallet>>

DeactivateInputs == {"luis@example.com"}

\* an administrator deactivates an account (is_active := false)
Deactivate(email) ==
    /\ email \in DOMAIN accounts
    /\ accounts[email].is_active
    /\ accounts' = [accounts EXCEPT ![email].is_active = FALSE]
    /\ lastOp' = "deactivate"
    /\ BrowserIdle
    /\ UNCHANGED <<now, resetVars, apiVars>>

(***************************************************************************)
(* Client: the form pages.  One route element is on screen at a time; a    *)
(* page that leaves the screen loses its component state, and what it      *)
(* awaited stays in flight with nobody to report to.                       *)
(***************************************************************************)
\* faulty variant: the loading flag does not disable the button
ButtonDisabledIgnoresLoading(disabled, loading) == disabled

\* Button: disabled={disabled || isLoading}
ButtonDisabled(disabled, loading) == disabled \/ loading

\* String.prototype.trim() on a sequence of characters
RECURSIVE TrimStart(_)
TrimStart(s) == IF Len(s) > 0 /\ s[1] = " " THEN TrimStart(Tail(s)) ELSE s

RECURSIVE TrimEnd(_)
TrimEnd(s) ==
    IF Len(s) > 0 /\ s[Len(s)] = " " THEN TrimEnd(SubSeq(s, 1, Len(s) - 1)) ELSE s

Trim(s) == TrimEnd(TrimStart(s))

\* /[A-Z]/.test, /[a-z]/.test and /\d/.test
HasUpper(p) == \E i \in 1..Len(p) : p[i] \in UpperChars

HasLower(p) == \E i \in 1..Len(p) : p[i] \in LowerChars

HasDigit(p) == \E i \in 1..Len(p) : p[i] \in DigitChars

Validation(errors, generalError) == [errors |-> errors, generalError |-> generalError]

Passes(v) == v.errors = {} /\ v.generalError = Null

\* RegisterPage.validate
RegisterValidate(formData) ==
    Validation(
        (IF formData.email = "" THEN {<<"email", "El correo es obligatorio">>} ELSE {})
        \cup
        (IF Len(formData.full_name) = 0 \/ Len(Trim(formData.full_name)) < 2
         THEN {<<"full_name", "El nombre debe tener al menos 2 caracteres">>} ELSE {})
        \cup
        (IF Len(formData.password) < 8
         THEN {<<"password", "Mínimo 8 caracteres">>}
         ELSE IF ~HasUpper(formData.password)
         THEN {<<"password", "Debe incluir al menos una mayúscula">>}
         ELSE IF ~HasLower(formData.password)
         THEN {<<"password", "Debe incluir al menos una minúscula">>}
         ELSE IF ~HasDigit(formData.password)
         THEN {<<"password", "Debe incluir al menos un número">>}
         ELSE {})
        \cup
        (IF formData.password # formData.confirmPassword
         THEN {<<"confirmPassword", "Las contraseñas no coinciden">>} ELSE {}),
        Null)

\* ChangePasswordPage.validate
ChangePasswordValidate(formData) ==
    Validation(
        (IF Len(formData.current_password) = 0
         THEN {<<"current_password", "La contraseña actual es obligatoria">>} ELSE {})
        \cup
        (IF Len(formData.new_password) < 8
         THEN {<<"new_password", "Mínimo 8 caracteres">>}
         ELSE IF ~HasUpper(formData.new_password)
         THEN {<<"new_password", "Debe incluir al menos una mayúscula">>}
         ELSE IF ~HasLower(formData.new_password)
         THEN {<<"new_password", "Debe incluir al menos una minúscula">>}
         ELSE IF ~HasDigit(formData.new_password)
         THEN {<<"new_password", "Debe incluir al menos un número">>}
         ELSE {})
        \cup
        (IF formData.new_password # formData.confirmPassword
         THEN {<<"confirmPassword", "Las contraseñas no coinciden">>} ELSE {}),
        Null)

\* faulty variant: the reset form lets a 7-character password through
ResetPasswordValidateSevenChars(formData, token, oldErrors) ==
    IF token = NoUrlToken
    THEN Validation(oldErrors, "Token de recuperación no encontrado en la URL")
    ELSE Validation(
        (IF Len(formData.new_password) < 7
         THEN {<<"new_password", "Mínimo 8 caracteres">>}
         ELSE IF ~HasUpper(formData.new_password)
         THEN {<<"new_password", "Debe incluir al menos una mayúscula">>}
         ELSE IF ~HasLower(formData.new_password)
         THEN {<<"new_password", "Debe incluir al menos una minúscula">>}
         ELSE IF ~HasDigit(formData.new_password)
         THEN {<<"new_password", "Debe incluir al menos un número">>}
         ELSE {})
        \cup
        (IF formData.new_password # formData.confirmPassword
         THEN {<<"confirmPassword", "Las contraseñas no coinciden">>} ELSE {}),
        Null)

\* ResetPasswordPage.validate: without a token it sets the alert and returns
\* before setErrors, so the field errors stay as they were
ResetPasswordValidate(formData, token, oldErrors) ==
    IF token = NoUrlToken
    THEN Validation(oldErrors, "Token de recuperación no encontrado en la URL")
    ELSE Validation(
        (IF Len(formData.new_password) < 8
         THEN {<<"new_password", "Mínimo 8 caracteres">>}
         ELSE IF ~HasUpper(formData.new_password)
         THEN {<<"new_password", "Debe incluir al menos una mayúscula">>}
         ELSE IF ~HasLower(formData.new_password)
         THEN {<<"new_password", "Debe incluir al menos una minúscula">>}
         ELSE IF ~HasDigit(formData.new_password)
         THEN {<<"new_password", "Debe incluir al menos un número">>}
         ELSE {})
        \cup
        (IF formData.new_password # formData.confirmPassword
         THEN {<<"confirmPassword", "Las contraseñas no coinciden">>} ELSE {}),
        Null)

\* ForgotPasswordPage.handleSubmit: if (!email) setError(...)
ForgotPasswordValidate(formData) ==
    Validation({}, IF formData.email = "" THEN "El correo es obligatorio" ELSE Null)

Validate(f, formData) ==
    CASE f = "register" -> RegisterValidate(formData)
      [] f = "changePassword" -> ChangePasswordValidate(formData)
      [] f = "resetPassword" ->
            ResetPasswordValidate(formData, urlToken, forms["resetPassword"].errors)
      [] f = "forgotPassword" -> ForgotPasswordValidate(formData)

\* the argument the page passes to the auth action
ActionArgument(f, formData) ==
    CASE f = "register" ->
            [email |-> formData.email, full_name |-> Trim(formData.full_name),
             password |-> formData.password]
      [] f = "changePassword" ->
            [current_password |-> formData.current_password,
             new_password |-> formData.new_password]
      [] f = "resetPassword" ->
            [token |-> urlToken, new_password |-> formData.new_password]
      [] f = "forgotPassword" -> [email |-> formData.email]

\* what the user may have typed into each form
FormPasswords == {PwShort, PwNoUpper, PwNoLower, PwNoDigit}

\* a form filled in rightly, and the same with one field changed
RegisterFilled ==
    [email |-> "nueva@example.com", full_name |-> <<"A", "n", "a">>,
     password |-> PwOld, confirmPassword |-> PwOld]

ChangePasswordFilled ==
    [current_password |-> PwOld, new_password |-> PwNew, confirmPassword |-> PwNew]

ResetPasswordFilled == [new_password |-> PwNew, confirmPassword |-> PwNew]

FormInputs(f) ==
    CASE f = "register" ->
            {RegisterFilled}
            \cup {[RegisterFilled EXCEPT !.email = e] : e \in {"", "ana@example.com"}}
            \cup {[RegisterFilled EXCEPT !.full_name = n] :
                        n \in {<<>>, <<"A">>, <<" ", "A", " ">>}}
            \cup {[RegisterFilled EXCEPT !.password = p] : p \in FormPasswords}
            \cup {[RegisterFilled EXCEPT !.confirmPassword = PwAlt],
                  [email |-> "", full_name |-> <<>>, password |-> <<>>,
                   confirmPassword |-> <<>>]}
      [] f = "changePassword" ->
            {ChangePasswordFilled}
            \cup {[ChangePasswordFilled EXCEPT !.current_password = c] : c \in {<<>>, PwAlt}}
            \cup {[ChangePasswordFilled EXCEPT !.new_password = p] : p \in FormPasswords}
            \cup {[ChangePasswordFilled EXCEPT !.confirmPassword = PwAlt],
                  [current_password |-> <<>>, new_password |-> <<>>,
                   confirmPassword |-> <<>>]}
      [] f = "resetPassword" ->
            {ResetPasswordFilled}
            \cup {[ResetPasswordFilled EXCEPT !.new_password = p] : p \in FormPasswords}
            \cup {[ResetPasswordFilled EXCEPT !.confirmPassword = PwAlt],
                  [new_password |-> <<>>, confirmPassword |-> <<>>]}
      [] f = "forgotPassword" ->
            {[email |-> e] : e \in {"", "ana@example.com", "nadie@example.com"}}

SubmitForms == {"register", "changePassword", "forgotPassword", "resetPassword"}

PassThroughForms == {"changePassword", "forgotPassword", "resetPassword"}

\* faulty variant: /reset-password shows its form whatever the URL and the
\* outcome
FormRenderedAlways(f) == page = f

\* the form is on screen with its submit button: /reset-password shows it
\* only with a token in the URL and until the reset succeeded
FormRendered(f) ==
    /\ page = f
    /\ f = "resetPassword" => urlToken # NoUrlToken /\ forms[f].success = Null

SessionIdle ==
    UNCHANGED <<sessionStorage, user, accessToken, refreshToken, isLoading,
                isAuthenticated, protectedView, strictDev, mounted, bootPc,
                bootHdr, bootOutcome>>

LoginIdle == UNCHANGED <<loginPc, loginData, loginHdr, loginOutcome, loginCount>>

ServerIdle == UNCHANGED <<now, accounts, resetVars, apiVars>>

UrlTokens == {NoUrlToken, 1}

\* a link or the address bar takes the browser to another route, followed
\* while the page on screen awaits nothing; a protected route renders its page
\* only for an authenticated session and redirects to /login otherwise (it
\* is entered here once the spinner of the session check is gone)
Navigate(p, tok) ==
    /\ mounted
    /\ isLoading => p \notin {"dashboard", "changePassword"}
    /\ formReqs = <<>>
    /\ loginPc = "idle"
    /\ p # page
    /\ LET target == IF p \in {"dashboard", "changePassword"}
                        /\ ProtectedRoute(isLoading, isAuthenticated) # "children"
                     THEN "login" ELSE p IN
       /\ target # page
       /\ page' = target
       /\ urlToken' = IF target = "resetPassword" THEN tok ELSE NoUrlToken
    /\ forms' = [f \in FormNames |-> FreshForm]
    /\ UNCHANGED <<formReqs, loginFor>>
    /\ lastOp' = "navigate"
    /\ SessionIdle
    /\ LoginIdle
    /\ ServerIdle
    /\ UNCHANGED themeVars

\* faulty variant: handleSubmit goes on after validate() returned false
FormSubmitIgnoresValidation(f, formData) ==
    /\ mounted
    /\ FormRendered(f)
    /\ ~ButtonDisabled(FALSE, forms[f].isLoading)
    /\ LET v == Validate(f, formData) IN
       /\ Len(formReqs) < MaxFormReqs
       /\ forms' = [forms EXCEPT ![f] =
               [formData |-> formData, errors |-> v.errors,
                generalError |-> v.generalError, success |-> Null, isLoading |-> TRUE]]
       /\ formReqs' = Append(formReqs,
               [form |-> f, data |-> ActionArgument(f, formData),
                hdr |-> RequestInterceptor(sessionStorage)])
    /\ lastOp' = "formSubmit"
    /\ UNCHANGED <<page, urlToken, loginFor>>
    /\ SessionIdle
    /\ LoginIdle
    /\ ServerIdle
    /\ UNCHANGED themeVars

\* handleSubmit of the register, change-password, forgot-password and
\* reset-password pages up to its first await
FormSubmit(f, formData) ==
    /\ mounted
    /\ FormRendered(f)
    /\ ~ButtonDisabled(FALSE, forms[f].isLoading)
    /\ LET v == Validate(f, formData) IN
       IF ~Passes(v)
       THEN /\ forms' = [forms EXCEPT ![f] =
                    [formData |-> formData, errors |-> v.errors,
                     generalError |-> v.generalError, success |-> Null,
                     isLoading |-> forms[f].isLoading]]
            /\ UNCHANGED formReqs
       ELSE /\ Len(formReqs) < MaxFormReqs
            /\ forms' = [forms EXCEPT ![f] =
                    [formData |-> formData, errors |-> {}, generalError |-> Null,
                     success |-> Null, isLoading |-> TRUE]]
            /\ formReqs' = Append(formReqs,
                    [form |-> f, data |-> ActionArgument(f, formData),
                     hdr |-> RequestInterceptor(sessionStorage)])
    /\ lastOp' = "formSubmit"
    /\ UNCHANGED <<page, urlToken, loginFor>>
    /\ SessionIdle
    /\ LoginIdle
    /\ ServerIdle
    /\ UNCHANGED themeVars

RemoveAt(s, k) == [i \in 1..(Len(s) - 1) |-> IF i < k THEN s[i] ELSE s[i + 1]]

NetworkError == [response |-> FALSE, request |-> TRUE, status |-> "0", detail |-> NoDetail]

SuccessMessage(f) ==
    CASE f = "changePassword" -> "Contraseña actualizada exitosamente"
      [] f = "resetPassword" ->
            "Contraseña restablecida exitosamente. Ya puedes iniciar sesión."
      [] f = "forgotPassword" ->
            "Si el correo está registrado, recibirás un enlace para restablecer tu contraseña."

\* then-branch, then finally: success alert, fields emptied, loading off
FormResolved(f) ==
    [formData |-> NoFormData, errors |-> forms[f].errors, generalError |-> Null,
     success |-> SuccessMessage(f), isLoading |-> FALSE]

\* the catch-branch without the finally: the flag stays raised
FormRejectedKeepsLoading(f, error) ==
    [forms[f] EXCEPT !.generalError = ResponseInterceptor(error)]

\* catch-branch, then finally: error alert with err.message, loading off
FormRejected(f, error) ==
    [forms[f] EXCEPT !.generalError = ResponseInterceptor(error), !.isLoading = FALSE]

\* faulty variant: a 401 answer logs the session out
ControllerPassThroughClearsOn401(answer) ==
    IF answer.status = "401"
    THEN /\ ClearAuth
         /\ UNCHANGED <<isLoading, strictDev, mounted, bootPc, bootHdr, bootOutcome>>
         /\ Render
    ELSE SessionIdle

\* changePassword, forgotPassword, resetPassword of the controller: await the
\* API call and nothing else
ControllerPassThrough(answer) == SessionIdle

\* faulty variant: an unknown email is told apart
ForgotPasswordResponseTellsUnknown(data) ==
    IF UserActive(data.email)
    THEN Answer("200", NoDetail, [message |-> "If the email exists, a reset link has been sent"])
    ELSE Answer("404", TextDetail("User not found"), NoBody)

\* POST /auth/forgot-password: the same acknowledgement for every email
ForgotPasswordResponse(data) ==
    Answer("200", NoDetail, [message |-> "If the email exists, a reset link has been sent"])

\* the server's answer to the request of a pass-through form
PassThroughAnswer(req) ==
    CASE req.form = "changePassword" -> ChangePasswordResponse(req.hdr.token, req.data, now)
      [] req.form = "resetPassword" -> ResetPasswordResponse(req.data, now)
      [] req.form = "forgotPassword" -> ForgotPasswordResponse(req.data)

\* what the answered request wrote on the server
PassThroughEffect(req, answer) ==
    CASE req.form = "changePassword" ->
            /\ accounts' = IF answer.status = "200"
                           THEN [accounts EXCEPT ![req.hdr.token.sub].hashed_password =
                                                     HashPassword(req.data.new_password)]
                           ELSE accounts
            /\ UNCHANGED resetTokens
      [] req.form = "resetPassword" ->
            IF answer.status = "200"
            THEN /\ accounts' = [accounts EXCEPT
                        ![resetTokens[req.data.token].user_id].hashed_password =
                            HashPassword(req.data.new_password)]
                 /\ resetTokens' = MarkTokenUsed(req.data.token)
            ELSE UNCHANGED <<accounts, resetTokens>>
      [] req.form = "forgotPassword" ->
            /\ UserActive(req.data.email) => Len(resetTokens) < MaxResetTokens
            /\ resetTokens' =
                IF UserActive(req.data.email)
                THEN Append(resetTokens,
                            [user_id |-> req.data.email, expires_at |-> now + ResetTTL,
                             used |-> FALSE])
                ELSE resetTokens
            /\ UNCHANGED accounts

\* the request of a pass-through form is answered and the page, if it is still
\* on screen, runs the rest of handleSubmit
FormAnswered(k) ==
    /\ k \in 1..Len(formReqs)
    /\ formReqs[k].form \in PassThroughForms
    /\ LET req == formReqs[k]
           answer == PassThroughAnswer(req) IN
       /\ PassThroughEffect(req, answer)
       /\ ControllerPassThrough(answer)
       /\ forms' = IF answer.status = "200"
                   THEN [forms EXCEPT ![req.form] = FormResolved(req.form)]
                   ELSE [forms EXCEPT ![req.form] =
                            FormRejected(req.form, HttpError(answer.status, answer.detail))]
    /\ formReqs' = RemoveAt(formReqs, k)
    /\ lastOp' = "formAnswered"
    /\ UNCHANGED <<page, urlToken, loginFor>>
    /\ LoginIdle
    /\ UNCHANGED <<now, resetCalls, apiVars, themeVars>>

\* the request of a pass-through form gets no response
FormUnanswered(k) ==
    /\ k \in 1..Len(formReqs)
    /\ formReqs[k].form \in PassThroughForms
    /\ LET req == formReqs[k] IN
       /\ ControllerPassThrough(Answer("0", NoDetail, NoBody))
       /\ forms' = [forms EXCEPT ![req.form] = FormRejected(req.form, NetworkError)]
    /\ formReqs' = RemoveAt(formReqs, k)
    /\ lastOp' = "formUnanswered"
    /\ UNCHANGED <<page, urlToken, loginFor>>
    /\ LoginIdle
    /\ ServerIdle
    /\ UNCHANGED themeVars

\* LoginPage.handleSubmit up to its await of login(); the page has no
\* validation of its own
LoginFormSubmit(data) ==
    /\ FormRendered("login")
    /\ ~ButtonDisabled(FALSE, forms["login"].isLoading)
    /\ LoginCall(data)
    /\ forms' = [forms EXCEPT !["login"] =
            [formData |-> data, errors |-> {}, generalError |-> Null, success |-> Null,
             isLoading |-> TRUE]]
    /\ loginFor' = "login"
    /\ lastOp' = "loginSubmit"
    /\ UNCHANGED <<page, urlToken, formReqs>>
    /\ ServerIdle
    /\ UNCHANGED themeVars

\* the AxiosError login() throws
LoginError(cause) ==
    IF cause = "401"
    THEN HttpError(LoginResponse(loginData, now).status, LoginResponse(loginData, now).detail)
    ELSE NetworkError

LoginProfileError(cause) ==
    IF cause = "401"
    THEN HttpError(NotAuthenticatedAnswer.status, NotAuthenticatedAnswer.detail)
    ELSE NetworkError

\* login() threw: catch and finally of the page that awaits it
CallerRejected(error) ==
    /\ forms' = [forms EXCEPT ![loginFor] = FormRejected(loginFor, error)]
    /\ loginFor' = NoCaller
    /\ UNCHANGED <<page, urlToken, formReqs>>

LoginFormFail(cause) ==
    /\ LoginThrows(cause)
    /\ CallerRejected(LoginError(cause))
    /\ lastOp' = "loginFail"
    /\ ServerIdle
    /\ UNCHANGED themeVars

LoginFormMeFail(cause) ==
    /\ LoginProfileThrows(cause)
    /\ CallerRejected(LoginProfileError(cause))
    /\ lastOp' = "loginMeFail"
    /\ ServerIdle
    /\ UNCHANGED themeVars

\* login() resolved: navigate("/dashboard", {replace: true}), then finally.
\* /dashboard is behind ProtectedRoute
LoginFormMeOk ==
    /\ LoginResolves
    /\ page' = IF protectedView' = "children" THEN "dashboard" ELSE "login"
    /\ forms' = IF page' # page
                THEN [f \in FormNames |-> FreshForm]
                ELSE [forms EXCEPT ![loginFor].isLoading = FALSE]
    /\ UNCHANGED <<formReqs, urlToken>>
    /\ loginFor' = NoCaller
    /\ lastOp' = "loginMeOk"
    /\ ServerIdle
    /\ UNCHANGED themeVars

\* POST /auth/register
RegisterResponse(data) ==
    IF data.email \in DOMAIN accounts
    THEN Answer("400", TextDetail("Email already registered"), NoBody)
    ELSE IF ~ValidatePasswordStrength(data.password)
    THEN WeakPasswordAnswer
    ELSE Answer("201", NoDetail, [email |-> data.email, is_active |-> TRUE])

\* register(): registerUser() answered 201, login() is called with the same
\* email and password
RegisterCreated(k) ==
    /\ k \in 1..Len(formReqs)
    /\ formReqs[k].form = "register"
    /\ LET req == formReqs[k]
           answer == RegisterResponse(req.data) IN
       /\ answer.status = "201"
       /\ accounts' = [e \in DOMAIN accounts \cup {req.data.email} |->
                          IF e = req.data.email
                          THEN [hashed_password |-> HashPassword(req.data.password),
                                is_active |-> TRUE]
                          ELSE accounts[e]]
       /\ LoginCall([email |-> req.data.email, password |-> req.data.password])
       /\ loginFor' = "register"
    /\ formReqs' = RemoveAt(formReqs, k)
    /\ lastOp' = "registerCreated"
    /\ UNCHANGED <<page, urlToken, forms>>
    /\ UNCHANGED <<now, resetVars, apiVars, themeVars>>

\* register(): registerUser() threw (400, 422, or no response); login() is
\* not called
RegisterRejected(k, cause) ==
    /\ k \in 1..Len(formReqs)
    /\ formReqs[k].form = "register"
    /\ cause \in {"answered", "network"}
    /\ LET req == formReqs[k]
           answer == RegisterResponse(req.data) IN
       /\ cause = "answered" => answer.status # "201"
       /\ forms' = [forms EXCEPT !["register"] =
                            FormRejected("register",
                                IF cause = "answered"
                                THEN HttpError(answer.status, answer.detail)
                                ELSE NetworkError)]
    /\ formReqs' = RemoveAt(formReqs, k)
    /\ lastOp' = "registerRejected"
    /\ UNCHANGED <<page, urlToken, loginFor>>
    /\ SessionIdle
    /\ LoginIdle
    /\ ServerIdle
    /\ UNCHANGED themeVars

(***************************************************************************)
(* Client: ThemeToggle.  Each tab has its own document and its own         *)
(* component state; localStorage is shared by the tabs.  React runs the    *)
(* effect of a render before it handles the next event, so a render and    *)
(* its effect are one step.                                                *)
(***************************************************************************)
\* what localStorage.getItem("theme") may give at a page load: nothing, an
\* empty string, what the effect wrote, or a word something else wrote
StoredThemes == {Null, "", "dark", "light", "system"}

\* faulty variant: the OS preference always decides
InitialIsDarkFromOs(stored, os) == os

\* useState initialiser: if (stored) return stored === "dark"; else matchMedia
InitialIsDark(stored, os) ==
    IF stored # Null /\ stored # "" THEN stored = "dark" ELSE os

\* faulty variant: the click always switches to dark
ToggleToDark(prev) == TRUE

\* toggle: setIsDark((prev) => !prev)
Toggle(prev) == ~prev

\* useEffect([isDark]): the value written to localStorage
EffectStored(dark) == IF dark THEN "dark" ELSE "light"

\* render with the given isDark, then the effect: class on <html>, item in
\* localStorage
ThemeRender(t, dark, clicks, loads, trail) ==
    /\ themeTabs' = [themeTabs EXCEPT ![t] =
            [mounted |-> TRUE, isDark |-> dark, htmlDark |-> dark, clicks |-> clicks,
             loads |-> loads, trail |-> trail]]
    /\ localTheme' = EffectStored(dark)
    /\ themeTab' = t

ThemeIdle ==
    /\ SessionIdle
    /\ LoginIdle
    /\ UNCHANGED <<now, accounts, resetVars, apiVars, formVars>>

\* a ThemeToggle mounts in tab t: the page loads in the tab, or the route
\* changes between a page with AuthLayout and a page with Navbar
ThemeMount(t) ==
    /\ themeTabs[t].loads < MaxLoads
    /\ LET dark == InitialIsDark(localTheme, osDark) IN
       ThemeRender(t, dark, themeTabs[t].clicks, themeTabs[t].loads + 1, <<dark>>)
    /\ lastOp' = "themeMount"
    /\ UNCHANGED osDark
    /\ ThemeIdle

\* a click on the button of tab t
ThemeClick(t) ==
    /\ themeTabs[t].mounted
    /\ themeTabs[t].clicks < MaxClicks
    /\ LET dark == Toggle(themeTabs[t].isDark) IN
       ThemeRender(t, dark, themeTabs[t].clicks + 1, themeTabs[t].loads,
                   Append(themeTabs[t].trail, dark))
    /\ lastOp' = "themeClick"
    /\ UNCHANGED osDark
    /\ ThemeIdle

\* tab t is closed or reloaded: its document and its component state are gone
ThemeUnload(t) ==
    /\ themeTabs[t].mounted
    /\ themeTabs' = [themeTabs EXCEPT ![t] =
            [ClosedTab EXCEPT !.clicks = themeTabs[t].clicks, !.loads = themeTabs[t].loads]]
    /\ themeTab' = t
    /\ lastOp' = "themeUnload"
    /\ UNCHANGED <<localTheme, osDark>>
    /\ ThemeIdle

\* the user changes the colour scheme of the operating system
OsChange ==
    /\ osDark' = ~osDark
    /\ lastOp' = "osChange"
    /\ UNCHANGED <<localTheme, themeTabs, themeTab>>
    /\ ThemeIdle

(***************************************************************************)
(* Specification                                                           *)
(***************************************************************************)
Next ==
    \/ Mount
    \/ \E i \in BootIds : BootMeOk(i)
    \/ \E i \in BootIds : BootMeFail(i)
    \/ \E data \in LoginInputs : LoginSubmit(data)
    \/ LoginOk
    \/ LoginFail
    \/ LoginMeOk
    \/ LoginMeFail
    \/ Logout
    \/ Tick

Spec == Init /\ [][Next]_vars

\* the password-recovery endpoints under concurrent callers, with the
\* browser session left at a fresh page load
InitReset ==
    /\ Init
    /\ sessionStorage = [access_token |-> NullTok, refresh_token |-> NullTok]
    /\ ~strictDev

NextReset ==
    \/ \E email \in ForgotInputs : ForgotPassword(email)
    \/ \E data \in ResetInputs : ResetPasswordCall(data)
    \/ \E k \in 1..MaxResetCalls : ResetPassword(k)
    \/ Tick

SpecReset == InitReset /\ [][NextReset]_vars

\* the token endpoints under an API caller that presents the tokens it was
\* issued, with the browser session left at a fresh page load
InitServer == InitReset

NextServer ==
    \/ \E data \in SrvLoginInputs : SrvLogin(data)
    \/ \E tok \in wallet : SrvGetMe(tok)
    \/ \E tok \in wallet : \E data \in ChangePasswordInputs : SrvChangePassword(tok, data)
    \/ \E tok \in wallet : SrvRefresh(tok)
    \/ \E email \in DeactivateInputs : Deactivate(email)
    \/ Tick

SpecServer == InitServer /\ [][NextServer]_vars

\* the life of one user's password: login, change-password, forgot-password
\* and reset-password, with the tokens of one login and MaxPasswordResets
\* recovery tokens
PasswordUser == "ana@example.com"

PasswordLoginInputs == {[email |-> PasswordUser, password |-> p] : p \in {PwOld, PwNew}}

NextPassword ==
    \/ \E data \in PasswordLoginInputs :
            SrvLogin(data) /\ Cardinality(wallet') <= MaxPasswordTokens
    \/ \E tok \in wallet : SrvGetMe(tok)
    \/ \E tok \in wallet : \E data \in ChangePasswordInputs : SrvChangePassword(tok, data)
    \/ Len(resetTokens) < MaxPasswordResets /\ ForgotPassword(PasswordUser)
    \/ \E data \in ResetInputs : SrvResetPassword(data)
    \/ Tick

SpecPassword == InitServer /\ [][NextPassword]_vars

\* the form pages in one browser tab, from a page load with an empty
\* sessionStorage
InitForms == InitReset

NextForms ==
    \/ Mount
    \/ \E p \in Pages : \E tok \in UrlTokens : Navigate(p, tok)
    \/ \E data \in PasswordLoginInputs :
            loginCount < MaxFormLogins /\ LoginFormSubmit(data)
    \/ LoginOk
    \/ \E cause \in {"401", "network"} : LoginFormFail(cause)
    \/ LoginFormMeOk
    \/ \E cause \in {"401", "network"} : LoginFormMeFail(cause)
    \/ \E f \in SubmitForms : \E formData \in FormInputs(f) : FormSubmit(f, formData)
    \/ \E k \in 1..MaxFormReqs : FormAnswered(k) /\ Len(resetTokens') <= MaxFormResets
    \/ \E k \in 1..MaxFormReqs : FormUnanswered(k)
    \/ \E k \in 1..MaxFormReqs : loginCount < MaxFormLogins /\ RegisterCreated(k)
    \/ \E k \in 1..MaxFormReqs : \E cause \in {"answered", "network"} : RegisterRejected(k, cause)
    \/ Tick

SpecForms == InitForms /\ [][NextForms]_vars

\* the register page in a tab whose sessionStorage may hold the tokens of an
\* earlier page load, so that the session check of the page load can still be
\* waiting when the form is submitted
InitRegister ==
    /\ Init
    /\ ~strictDev

RegisterInputs ==
    {RegisterFilled, [RegisterFilled EXCEPT !.email = "ana@example.com"]}

NextRegister ==
    \/ Mount
    \/ BootMeOk(1)
    \/ BootMeFail(1)
    \/ Navigate("register", NoUrlToken)
    \/ \E formData \in RegisterInputs : FormSubmit("register", formData)
    \/ \E k \in 1..MaxFormReqs : loginCount < MaxFormLogins /\ RegisterCreated(k)
    \/ \E k \in 1..MaxFormReqs : \E cause \in {"answered", "network"} : RegisterRejected(k, cause)
    \/ LoginOk
    \/ \E cause \in {"401", "network"} : LoginFormFail(cause)
    \/ LoginFormMeOk
    \/ \E cause \in {"401", "network"} : LoginFormMeFail(cause)
    \/ Tick

SpecRegister == InitRegister /\ [][NextRegister]_vars

\* page load and form submissions with every request settling in the end:
\* the mount effect runs, and each request in flight is answered or fails
\* (the axios instance gives up after its timeout)
LiveInputs(f) ==
    CASE f = "register" -> {RegisterFilled}
      [] f = "changePassword" -> {ChangePasswordFilled}
      [] f = "resetPassword" -> {ResetPasswordFilled}
      [] f = "forgotPassword" -> {[email |-> "ana@example.com"]}

LiveLoginInputs == {[email |-> PasswordUser, password |-> PwOld]}

BootSettles == BootMeOk(1) \/ BootMeFail(1)

LoginSettles ==
    \/ LoginOk
    \/ \E cause \in {"401", "network"} : LoginFormFail(cause)
    \/ LoginFormMeOk
    \/ \E cause \in {"401", "network"} : LoginFormMeFail(cause)

FormSettles ==
    \/ \E k \in 1..MaxFormReqs : FormAnswered(k) /\ Len(resetTokens') <= MaxFormResets
    \/ \E k \in 1..MaxFormReqs : FormUnanswered(k)
    \/ \E k \in 1..MaxFormReqs : loginCount < MaxFormLogins /\ RegisterCreated(k)
    \/ \E k \in 1..MaxFormReqs : \E cause \in {"answered", "network"} : RegisterRejected(k, cause)

NextLive ==
    \/ Mount
    \/ BootSettles
    \/ \E p \in Pages : Navigate(p, 1)
    \/ \E data \in LiveLoginInputs :
            loginCount < MaxFormLogins /\ LoginFormSubmit(data)
    \/ \E f \in SubmitForms : \E formData \in LiveInputs(f) : FormSubmit(f, formData)
    \/ LoginSettles
    \/ FormSettles

SpecLive ==
    /\ InitRegister
    /\ [][NextLive]_vars
    /\ WF_vars(Mount)
    /\ WF_vars(BootSettles)
    /\ WF_vars(LoginSettles)
    /\ WF_vars(FormSettles)

\* the life of the session in one tab that starts with an empty
\* sessionStorage: page loads, logins, registrations and logouts

\* the tab is reloaded: sessionStorage survives, the useState initialisers
\* run again and what the old document awaited is gone
Reload ==
    /\ mounted
    /\ UNCHANGED <<sessionStorage, strictDev, loginCount>>
    /\ user' = Null
    /\ accessToken' = sessionStorage["access_token"]
    /\ refreshToken' = sessionStorage["refresh_token"]
    /\ isLoading' = TRUE
    /\ mounted' = FALSE
    /\ bootPc' = [i \in BootIds |-> "unused"]
    /\ bootHdr' = [i \in BootIds |-> NoAuthorization]
    /\ bootOutcome' = [i \in BootIds |-> "none"]
    /\ Render
    /\ loginPc' = "idle"
    /\ loginData' = [email |-> Null, password |-> <<>>]
    /\ loginHdr' = NoAuthorization
    /\ loginOutcome' = "none"
    /\ forms' = [f \in FormNames |-> FreshForm]
    /\ formReqs' = <<>>
    /\ loginFor' = NoCaller
    /\ UNCHANGED <<page, urlToken>>
    /\ lastOp' = "reload"
    /\ ServerIdle
    /\ UNCHANGED themeVars

\* Navbar.handleLogout: logout(), then navigate("/login")
HandleLogout ==
    /\ page \in {"dashboard", "changePassword"}
    /\ protectedView = "children"
    /\ ClearAuth
    /\ UNCHANGED <<isLoading, strictDev, mounted, bootPc, bootHdr, bootOutcome>>
    /\ Render
    /\ LoginIdle
    /\ page' = "login"
    /\ urlToken' = NoUrlToken
    /\ forms' = [f \in FormNames |-> FreshForm]
    /\ UNCHANGED <<formReqs, loginFor>>
    /\ lastOp' = "logout"
    /\ ServerIdle
    /\ UNCHANGED themeVars

InitSession ==
    /\ Init
    /\ sessionStorage = [access_token |-> NullTok, refresh_token |-> NullTok]

NextSession ==
    \/ Mount
    \/ \E i \in BootIds : BootMeOk(i)
    \/ \E i \in BootIds : BootMeFail(i)
    \/ Reload
    \/ \E p \in {"login", "register", "dashboard"} : Navigate(p, NoUrlToken)
    \/ \E data \in PasswordLoginInputs : LoginFormSubmit(data)
    \/ \E formData \in RegisterInputs : FormSubmit("register", formData)
    \/ \E k \in 1..MaxFormReqs : RegisterCreated(k)
    \/ \E k \in 1..MaxFormReqs : \E cause \in {"answered", "network"} :
            RegisterRejected(k, cause)
    \/ LoginOk
    \/ \E cause \in {"401", "network"} : LoginFormFail(cause)
    \/ LoginFormMeOk
    \/ \E cause \in {"401", "network"} : LoginFormMeFail(cause)
    \/ HandleLogout

SpecSession == InitSession /\ [][NextSession]_vars

\* the theme toggle in the tabs of one browser, with the session left at a
\* fresh page load
InitTheme ==
    /\ InitClient
    /\ sessionStorage = [access_token |-> NullTok, refresh_token |-> NullTok]
    /\ ~strictDev
    /\ now = 0
    /\ accounts = InitAccounts
    /\ resetTokens = <<>>
    /\ resetCalls = <<>>
    /\ wallet = {}
    /\ srvCall = NoCall
    /\ page = "login"
    /\ urlToken = NoUrlToken
    /\ forms = [f \in FormNames |-> FreshForm]
    /\ formReqs = <<>>
    /\ loginFor = NoCaller
    /\ localTheme \in StoredThemes
    /\ osDark \in BOOLEAN
    /\ themeTabs = [t \in Tabs |-> ClosedTab]
    /\ themeTab = 0

NextTheme ==
    \/ \E t \in Tabs : ThemeMount(t)
    \/ \E t \in Tabs : ThemeClick(t)
    \/ \E t \in Tabs : ThemeUnload(t)
    \/ OsChange

SpecTheme == InitTheme /\ [][NextTheme]_vars

(***************************************************************************)
(* Properties                                                              *)
(***************************************************************************)
EmptyStorage == [access_token |-> NullTok, refresh_token |-> NullTok]

\* no token in sessionStorage or in controller state, and no cached profile
SessionCleared ==
    /\ sessionStorage = EmptyStorage
    /\ accessToken = NullTok
    /\ refreshToken = NullTok
    /\ user = Null

StartedBoots == {i \in BootIds : bootPc[i] # "unused"}

\* C1: login() is all-or-nothing: when the login request succeeded and the
\* profile fetch that follows fails, login() rejects and no token is left in
\* sessionStorage or in controller state, and user is null.
C1_LoginAllOrNothing ==
    lastOp = "loginMeFail" =>
        /\ loginOutcome = "rejectedMe"
        /\ SessionCleared

\* C2: on page load with a persisted access token every verifySession() run
\* fetches the profile, and right after such a fetch fails (401 or no
\* response) both tokens are gone from sessionStorage and from controller
\* state, user is null and isAuthenticated is false.
C2_BootstrapFailureClears ==
    /\ (lastOp = "mount" /\ sessionStorage["access_token"] # NullTok) =>
            \A i \in StartedBoots :
                /\ bootPc[i] = "awaitMe"
                /\ bootHdr[i].token = sessionStorage["access_token"]
    /\ lastOp = "bootMeFail" =>
            /\ SessionCleared
            /\ ~isAuthenticated

C2_Witness ==
    /\ lastOp = "bootMeFail"
    /\ bootOutcome[1] = "401"
    /\ bootHdr[1].scheme = "Bearer"

\* C3: ProtectedRoute shows its children exactly when isLoading is false and
\* the user is authenticated (profile and access token both present); it
\* shows the spinner while isLoading and redirects to /login otherwise.
C3_ProtectedContentOnlyWhenAuthenticated ==
    /\ protectedView = "children" <=> (~isLoading /\ user # Null /\ accessToken # NullTok)
    /\ protectedView = "spinner" <=> isLoading
    /\ protectedView = "redirect" <=> (~isLoading /\ ~(user # Null /\ accessToken # NullTok))

C3_Witness ==
    /\ protectedView = "children"
    /\ lastOp = "loginMeOk"

\* C4: a logout() step clears both tokens (sessionStorage and state) and the
\* profile, sends no request (the requests in flight are the same before and
\* after), and leaves isAuthenticated false and the protected routes
\* redirecting to /login.
C4_LogoutClearsLocally ==
    [][lastOp' = "logout" =>
        /\ SessionCleared'
        /\ ~isAuthenticated'
        /\ protectedView' = "redirect"
        /\ UNCHANGED <<bootPc, bootHdr, loginPc, loginHdr>>]_vars

C4_Witness ==
    /\ lastOp = "logout"
    /\ protectedView = "redirect"

\* C5: in every reachable state isAuthenticated is true exactly when user is
\* non-null and accessToken is non-null.
C5_IsAuthenticatedDerived ==
    isAuthenticated <=> (user # Null /\ accessToken # NullTok)

C5_Witness ==
    /\ isAuthenticated
    /\ user # Null
    /\ accessToken # NullTok

\* C6: verifySession() runs exactly once per page load and never has two
\* invocations waiting at the same time.
C6_BootstrapRunsOnce ==
    mounted =>
        /\ Cardinality(StartedBoots) = 1
        /\ Cardinality({i \in BootIds : bootPc[i] = "awaitMe"}) <= 1

\* C7: a reset token is consumed successfully at most once: of the calls
\* made on one token, in any order, at most one is answered 200, the token
\* is marked used exactly when one was, every other completed call is
\* answered 400 (422 for a weak password), and the owner's password is one
\* set by a successful call.
SuccessfulCalls(tok) ==
    {k \in 1..Len(resetCalls) : resetCalls[k].token = tok /\ resetCalls[k].status = "200"}

C7_ResetTokenSingleUse ==
    /\ \A tok \in 1..Len(resetTokens) :
        /\ Cardinality(SuccessfulCalls(tok)) <= 1
        /\ resetTokens[tok].used <=> Cardinality(SuccessfulCalls(tok)) = 1
    /\ \A k \in 1..Len(resetCalls) :
        /\ resetCalls[k].status \in {"pending", "200", "400", "422"}
        /\ resetCalls[k].status = "200" => resetCalls[k].token \in 1..Len(resetTokens)
    /\ \A e \in Emails :
        LET wins == {k \in 1..Len(resetCalls) :
                        /\ resetCalls[k].status = "200"
                        /\ resetTokens[resetCalls[k].token].user_id = e}
        IN  IF wins = {}
            THEN accounts[e].hashed_password = HashPassword(PwOld)
            ELSE \E k \in wins :
                    accounts[e].hashed_password = HashPassword(resetCalls[k].new_password)

C7_Witness ==
    \E j, k \in 1..Len(resetCalls) :
        /\ j # k
        /\ resetCalls[j].token = resetCalls[k].token
        /\ resetCalls[j].new_password # resetCalls[k].new_password
        /\ resetCalls[j].status = "200"
        /\ resetCalls[k].status = "400"
        /\ now < resetTokens[resetCalls[k].token].expires_at

\* C8: when a request is answered 401 because the access token has expired
\* while the refresh token issued with it is still valid, the client renews
\* the access token and the session continues.
C8_RefreshOnExpiry ==
    \A i \in BootIds :
        ( /\ lastOp = "bootMeFail"
          /\ bootOutcome[i] = "401"
          /\ bootHdr[i].token.kind = "access"
          /\ now >= bootHdr[i].token.exp
          /\ now < bootHdr[i].token.exp - AccessTTL + RefreshTTL )
        => /\ accessToken # NullTok
           /\ VerifyToken(accessToken, "access", now)

\* C9: sessionStorage always holds the controller's access token, and every
\* request just sent carries "Bearer t" for the access token t the
\* controller holds, or no Authorization header when it holds none.
ExpectedAuthorization ==
    IF accessToken = NullTok
    THEN [scheme |-> "none", token |-> NullTok]
    ELSE [scheme |-> "Bearer", token |-> accessToken]

C9_BearerIsControllerToken ==
    /\ sessionStorage["access_token"] = accessToken
    /\ lastOp \in {"loginSubmit", "loginOk"} => loginHdr = ExpectedAuthorization
    /\ lastOp = "mount" =>
            \A i \in BootIds : bootPc[i] = "awaitMe" => bootHdr[i] = ExpectedAuthorization

C9_Witness ==
    /\ lastOp = "loginOk"
    /\ loginHdr.scheme = "Bearer"
    /\ loginHdr.token.sub = loginData.email

\* C10: login() sends the login request, stores both returned tokens in
\* sessionStorage and in state, then fetches the profile with the new access
\* token attached; when it resolves, user is that profile and
\* isAuthenticated is true.
C10_LoginOrderAndResult ==
    /\ lastOp = "loginOk" =>
            /\ sessionStorage["access_token"].kind = "access"
            /\ sessionStorage["access_token"].sub = loginData.email
            /\ sessionStorage["refresh_token"].kind = "refresh"
            /\ accessToken = sessionStorage["access_token"]
            /\ refreshToken = sessionStorage["refresh_token"]
            /\ loginHdr = [scheme |-> "Bearer", token |-> sessionStorage["access_token"]]
    /\ lastOp = "loginMeOk" =>
            /\ loginOutcome = "resolved"
            /\ user = loginData.email
            /\ isAuthenticated

\* C11: a refresh token presented where an access token is required (profile
\* lookup, change-password) is answered 401, and an access token presented to
\* the refresh endpoint is answered 401, whatever the token and the instant.
C11_TokenKindsNotInterchangeable ==
    /\ srvCall.endpoint \in {"me", "changePassword"} /\ srvCall.input.token.kind = "refresh"
        => srvCall.status = "401"
    /\ srvCall.endpoint = "refresh" /\ srvCall.input.token.kind = "access"
        => srvCall.status = "401"

\* an unexpired refresh token of an active user was presented to GET /users/me
C11_Witness ==
    /\ srvCall.endpoint = "me"
    /\ srvCall.input.token.kind = "refresh"
    /\ now < srvCall.input.token.exp
    /\ UserActive(srvCall.input.token.sub)
    /\ srvCall.status = "401"

\* C12: a failed login is answered 401 "Incorrect email or password" whatever
\* the cause (unknown email, wrong password, inactive account), and that is the
\* message the login page gets from the response interceptor.
C12_LoginFailureUniform ==
    srvCall.endpoint = "login" /\ srvCall.status # "200" =>
        /\ srvCall.status = "401"
        /\ srvCall.detail = TextDetail("Incorrect email or password")
        /\ ResponseInterceptor(HttpError(srvCall.status, srvCall.detail))
               = "Incorrect email or password"

\* the login of a deactivated account with its right password was refused
C12_Witness ==
    /\ srvCall.endpoint = "login"
    /\ srvCall.input.email \in DOMAIN accounts
    /\ ~accounts[srvCall.input.email].is_active
    /\ VerifyPassword(srvCall.input.password, accounts[srvCall.input.email].hashed_password)
    /\ srvCall.status = "401"

\* a step in which the server answered a POST /auth/refresh call
RefreshStep == lastOp' = "srvRefresh" /\ now' = now

AccessStep == lastOp' \in {"srvGetMe", "srvChangePassword"} /\ now' = now

ResetStep == lastOp' = "srvResetPassword" /\ now' = now

LoginAccepts(acc, email, password) ==
    /\ email \in DOMAIN acc
    /\ acc[email].is_active
    /\ VerifyPassword(password, acc[email].hashed_password)

LoginStep == lastOp' = "srvLogin" /\ now' = now

ChangeStep == lastOp' = "srvChangePassword" /\ now' = now

\* what holds of change-password, reset-password and login whatever the new
\* password is: a refused call leaves the users table as it was, a wrong
\* current password, a weak new password or an unusable reset token is
\* refused, an accepted call makes login accept the new password, and login
\* answers 200 exactly for the stored password of an active account
PasswordCallsSound ==
    /\ ChangeStep =>
          LET data == srvCall'.input
              sub == data.token.sub IN
          /\ srvCall'.status # "200" => accounts' = accounts
          /\ srvCall'.status = "200" =>
                /\ VerifyPassword(data.current_password, accounts[sub].hashed_password)
                /\ ValidatePasswordStrength(data.new_password)
                /\ LoginAccepts(accounts', sub, data.new_password)
    /\ ResetStep =>
          LET data == srvCall'.input IN
          /\ srvCall'.status # "200" => accounts' = accounts
          /\ srvCall'.status = "200" =>
                /\ ResetTokenUsable(data.token, now)
                /\ ValidatePasswordStrength(data.new_password)
                /\ LoginAccepts(accounts', resetTokens[data.token].user_id,
                                data.new_password)
    /\ LoginStep =>
          (srvCall'.status = "200"
              <=> LoginAccepts(accounts, srvCall'.input.email, srvCall'.input.password))

PassThroughStep ==
    /\ now' = now
    /\ \/ lastOp' \in {"formAnswered", "formUnanswered"}
       \/ lastOp' = "formSubmit" /\ page \in PassThroughForms

C14_PassThroughsKeepSession ==
    [][PassThroughStep =>
        UNCHANGED <<user, accessToken, refreshToken, isLoading, sessionStorage>>]_vars

\* change-password was answered 401 for an expired access token and the
\* session is still there
C14_Witness ==
    /\ lastOp = "formAnswered"
    /\ page = "changePassword"
    /\ forms["changePassword"].generalError =
            ResponseInterceptor(HttpError(NotAuthenticatedAnswer.status,
                                          NotAuthenticatedAnswer.detail))
    /\ user # Null
    /\ accessToken # NullTok
    /\ sessionStorage["access_token"] = accessToken

\* C15: for each of the five forms at most one request is in flight at any
\* time, and the form's loading flag is true exactly from the submission until
\* what the submission awaits has resolved or rejected; for the register form
\* that is the register request and then the login call that follows it.
InFlight(f) ==
    Cardinality({k \in 1..Len(formReqs) : formReqs[k].form = f})
    + (IF loginFor = f /\ loginPc # "idle" THEN 1 ELSE 0)

StrengthForms == {"register", "changePassword", "resetPassword"}

NewPasswordField(f) == IF f = "register" THEN "password" ELSE "new_password"

SubmittedPassword(f) ==
    IF f = "register" THEN forms[f].formData.password ELSE forms[f].formData.new_password

MeetsStrengthRule(p) ==
    /\ Len(p) >= 8
    /\ \E i \in 1..Len(p) : p[i] \in UpperChars
    /\ \E i \in 1..Len(p) : p[i] \in LowerChars
    /\ \E i \in 1..Len(p) : p[i] \in DigitChars

JustSubmitted(f) ==
    /\ lastOp = "formSubmit"
    /\ page = f
    /\ forms[f].formData # NoFormData

C16_SameStrengthRule ==
    \A f \in StrengthForms :
        JustSubmitted(f) =>
            ((\A e \in forms[f].errors : e[1] # NewPasswordField(f))
                <=> MeetsStrengthRule(SubmittedPassword(f)))

\* the reset form refused a 7-character password that has all three classes
C16_Witness ==
    /\ JustSubmitted("resetPassword")
    /\ Len(SubmittedPassword("resetPassword")) = 7
    /\ MeetsStrengthRule(SubmittedPassword("resetPassword") \o <<"x">>)
    /\ <<"new_password", "Mínimo 8 caracteres">> \in forms["resetPassword"].errors
    /\ ~forms["resetPassword"].isLoading

\* C17: when what was typed fails the client-side checks of the register,
\* change-password, reset-password or forgot-password form (an empty required
\* field, a weak password, a confirmation that differs, a name of fewer than 2
\* characters once trimmed), the submission sends no request, calls no auth
\* action, leaves the loading flag down and shows an error.
InvalidInput(f, d) ==
    CASE f = "register" ->
            \/ d.email = ""
            \/ Len(Trim(d.full_name)) < 2
            \/ ~MeetsStrengthRule(d.password)
            \/ d.confirmPassword # d.password
      [] f = "changePassword" ->
            \/ d.current_password = <<>>
            \/ ~MeetsStrengthRule(d.new_password)
            \/ d.confirmPassword # d.new_password
      [] f = "resetPassword" ->
            \/ ~MeetsStrengthRule(d.new_password)
            \/ d.confirmPassword # d.new_password
      [] f = "forgotPassword" -> d.email = ""
      [] OTHER -> FALSE

SubmitStep == lastOp' = "formSubmit" /\ now' = now

C17_InvalidInputSendsNothing ==
    [][(SubmitStep /\ InvalidInput(page, forms'[page].formData)) =>
        /\ formReqs' = formReqs
        /\ UNCHANGED <<loginPc, loginCount, loginFor>>
        /\ ~forms'[page].isLoading
        /\ forms'[page].errors # {} \/ forms'[page].generalError # Null]_vars

\* the register form refused a name that is one letter between two blanks
C17_Witness ==
    /\ lastOp = "formSubmit"
    /\ page = "register"
    /\ forms["register"].formData.full_name = <<" ", "A", " ">>
    /\ forms["register"].errors =
            {<<"full_name", "El nombre debe tener al menos 2 caracteres">>}
    /\ ~forms["register"].isLoading
    /\ formReqs = <<>>
    /\ loginPc = "idle"

\* C20: what the caller of forgot-password sees does not depend on whether
\* the email belongs to a registered user: every answered request gets the
\* same 200 acknowledgement, and the page then shows the same fixed success
\* message with the field emptied, the alert cleared and the loading flag down.
ForgotAcknowledgement ==
    Answer("200", NoDetail, [message |-> "If the email exists, a reset link has been sent"])

ForgotAcknowledged ==
    [formData |-> NoFormData, errors |-> {}, generalError |-> Null,
     success |->
        "Si el correo está registrado, recibirás un enlace para restablecer tu contraseña.",
     isLoading |-> FALSE]

ForgotAnsweredStep(k) ==
    /\ lastOp' = "formAnswered"
    /\ now' = now
    /\ formReqs[k].form = "forgotPassword"
    /\ formReqs' = RemoveAt(formReqs, k)

C20_ForgotOutcomeUniform ==
    [][\A k \in 1..Len(formReqs) :
        ForgotAnsweredStep(k) =>
            /\ PassThroughAnswer(formReqs[k]) = ForgotAcknowledgement
            /\ forms'["forgotPassword"] = ForgotAcknowledged]_vars

\* the acknowledgement is on screen although no reset token was ever created:
\* the email that was sent belongs to nobody
C20_Witness ==
    /\ lastOp = "formAnswered"
    /\ page = "forgotPassword"
    /\ forms["forgotPassword"] = ForgotAcknowledged
    /\ resetTokens = <<>>

\* C21: an authenticated user who navigates to a public route (/login or
\* /register) is redirected to /dashboard: right after a navigation of an
\* authenticated session the page on screen is neither the login nor the
\* register page.
C21_PublicRoutesRedirectAuthenticated ==
    (lastOp = "navigate" /\ isAuthenticated) => page \notin {"login", "register"}

\* C22: register() first creates the account and only then logs in with the
\* same email and password; when it resolves the user is authenticated as the
\* new account; when the account creation is rejected no login is attempted
\* and the session state is unchanged.
RegisterCreatedStep(k) ==
    /\ lastOp' = "registerCreated"
    /\ now' = now
    /\ formReqs[k].form = "register"
    /\ formReqs' = RemoveAt(formReqs, k)

C22_CreatedThenLogin ==
    \A k \in 1..Len(formReqs) :
        RegisterCreatedStep(k) =>
            /\ formReqs[k].data.email \notin DOMAIN accounts
            /\ formReqs[k].data.email \in DOMAIN accounts'
            /\ accounts'[formReqs[k].data.email].hashed_password =
                    HashPassword(formReqs[k].data.password)
            /\ loginPc = "idle"
            /\ loginPc' = "awaitLogin"
            /\ loginData' = [email |-> formReqs[k].data.email,
                             password |-> formReqs[k].data.password]

C22_RejectedNoLogin ==
    (lastOp' = "registerRejected" /\ now' = now) =>
        /\ accounts' = accounts
        /\ UNCHANGED <<loginPc, loginCount, loginData>>
        /\ UNCHANGED <<sessionStorage, user, accessToken, refreshToken, isAuthenticated>>

C22_ResolvedAuthenticated ==
    (loginFor = "register" /\ lastOp' = "loginMeOk" /\ now' = now) =>
        /\ isAuthenticated'
        /\ user' = loginData.email
        /\ accessToken'.sub = loginData.email

C22_RegisterThenLogin ==
    [][C22_CreatedThenLogin /\ C22_RejectedNoLogin /\ C22_ResolvedAuthenticated]_vars

\* C23: on the reset-password page without a token in the URL the form is not
\* there to submit and resetPassword is never called; with a token, the call
\* carries exactly that token and the entered new password, and only once
\* validation passed; after a success the form is gone, so the page does not
\* submit the token again.
ResetRequests(reqs) == {k \in 1..Len(reqs) : reqs[k].form = "resetPassword"}

C23_ResetPageCalls ==
    [][/\ (SubmitStep /\ page = "resetPassword") =>
            /\ urlToken # NoUrlToken
            /\ forms["resetPassword"].success = Null
       /\ \A k \in ResetRequests(formReqs') :
            /\ page' = "resetPassword"
            /\ urlToken' # NoUrlToken
            /\ formReqs'[k].data.token = urlToken'
            /\ formReqs'[k].data.new_password = forms'["resetPassword"].formData.new_password
            /\ MeetsStrengthRule(formReqs'[k].data.new_password)
            /\ forms'["resetPassword"].formData.confirmPassword =
                    formReqs'[k].data.new_password]_vars

\* the reset succeeded with the token of the URL and the page shows the
\* success alert in place of the form
C23_Witness ==
    /\ lastOp = "formAnswered"
    /\ page = "resetPassword"
    /\ urlToken \in 1..Len(resetTokens)
    /\ resetTokens[urlToken].used
    /\ forms["resetPassword"].success # Null
    /\ ~FormRendered("resetPassword")
    /\ formReqs = <<>>

\* C24: after every click on the theme toggle the theme of that tab has
\* flipped, the html element has the class dark exactly when localStorage
\* "theme" is "dark" and lacks it exactly when it is "light", and a second
\* click brings back the theme from before the first.
ClickStep(t) ==
    /\ lastOp' = "themeClick"
    /\ themeTab' = t
    /\ themeTabs'[t].clicks = themeTabs[t].clicks + 1

C24_ToggleFlipsAndPersists ==
    [][\A t \in Tabs :
        ClickStep(t) =>
            LET trail == themeTabs'[t].trail IN
            /\ themeTabs'[t].htmlDark = ~themeTabs[t].htmlDark
            /\ themeTabs'[t].htmlDark <=> localTheme' = "dark"
            /\ ~themeTabs'[t].htmlDark <=> localTheme' = "light"
            /\ Len(trail) >= 3 => trail[Len(trail)] = trail[Len(trail) - 2]]_vars

\* two clicks in one tab, dark and back to light, and localStorage says light
C24_Witness ==
    \E t \in Tabs :
        /\ lastOp = "themeClick"
        /\ themeTab = t
        /\ themeTabs[t].trail = <<FALSE, TRUE, FALSE>>
        /\ ~themeTabs[t].htmlDark
        /\ localTheme = "light"

\* C25: once logout() has run the session stays cleared until login() or
\* register() is invoked again: when the step that follows a logout is the
\* completion of a login request or of a profile fetch that was in flight,
\* no token is back in sessionStorage or in state, user is null and
\* isAuthenticated is false.
CompletionOps == {"loginOk", "loginFail", "loginMeOk", "loginMeFail", "bootMeOk", "bootMeFail"}

C25_LogoutStaysCleared ==
    [][(lastOp = "logout" /\ lastOp' \in CompletionOps) =>
        /\ SessionCleared'
        /\ ~isAuthenticated']_vars

\* C26: a session established by a login() that completed successfully is
\* never cleared by the startup bootstrap: when the bootstrap's profile fetch,
\* sent with the token persisted before that login, fails after the login
\* resolved, the tokens and the user of the login remain and isAuthenticated
\* stays true.
LoginSessionHeld ==
    /\ loginOutcome = "resolved"
    /\ isAuthenticated
    /\ user = loginData.email
    /\ accessToken.sub = loginData.email

C26_BootstrapKeepsLoginSession ==
    [][(LoginSessionHeld /\ lastOp' = "bootMeFail" /\ now' = now) =>
        /\ UNCHANGED <<sessionStorage, accessToken, refreshToken, user>>
        /\ isAuthenticated']_vars

\* C27: whenever isAuthenticated is true the cached user profile is that of
\* the subject of the access token held: user and accessToken never belong
\* to different accounts.
C27_UserMatchesToken ==
    isAuthenticated => user = accessToken.sub


\* C28: when every request settles in the end, the controller's isLoading
\* becomes false after the page load, and a form's loading flag raised
\* by a submission returns to false, whether the request succeeded or failed
C28_LoadingFlagsSettle ==
    /\ <>(~isLoading)
    /\ \A f \in SubmitForms \cup {"login"} :
          forms[f].isLoading ~> ~forms[f].isLoading

\* a page load with a persisted session finished its bootstrap, and a
\* password change that got no answer left the form idle again
C28_Witness ==
    /\ lastOp = "formUnanswered"
    /\ page = "changePassword"
    /\ bootOutcome[1] = "ok"
    /\ ~isLoading
    /\ ~forms["changePassword"].isLoading


\* C29: starting from an empty sessionStorage, through page loads, logins,
\* registrations and logouts, accessToken and refreshToken are both null
\* or both set, and sessionStorage holds the same two values as the
\* controller state
C29_TokensPairedAndStored ==
    /\ (accessToken = NullTok) <=> (refreshToken = NullTok)
    /\ sessionStorage["access_token"] = accessToken
    /\ sessionStorage["refresh_token"] = refreshToken

\* a registration created an account and logged it in, and the user then
\* logged out
C29_Witness ==
    /\ lastOp = "logout"
    /\ loginOutcome = "resolved"
    /\ DOMAIN accounts # DOMAIN InitAccounts
    /\ accessToken = NullTok
    /\ sessionStorage["refresh_token"] = NullTok


\* a step in which tab t mounts ThemeToggle
MountStep(t) ==
    /\ lastOp' = "themeMount"
    /\ themeTab' = t
    /\ themeTabs'[t].loads = themeTabs[t].loads + 1

\* C30: with no stored preference the first mount of ThemeToggle takes the
\* OS colour-scheme preference and writes it to localStorage in the same
\* step, without a click; from then on localStorage 'theme' is 'dark' or
\* 'light', and on every later load the stored value decides the theme,
\* whatever the OS preference is
C30_StoredPreferenceDecides ==
    [][/\ \A t \in Tabs :
            (MountStep(t) /\ localTheme = Null) =>
                /\ themeTabs'[t].isDark = osDark
                /\ themeTabs'[t].htmlDark = osDark
                /\ localTheme' = EffectStored(osDark)
                /\ themeTabs'[t].clicks = themeTabs[t].clicks
       /\ lastOp' \in {"themeMount", "themeClick"} => localTheme' \in {"dark", "light"}
       /\ localTheme \in {"dark", "light"} => localTheme' \in {"dark", "light"}
       /\ \A t \in Tabs :
            (MountStep(t) /\ localTheme \in {"dark", "light"}) =>
                /\ themeTabs'[t].isDark = (localTheme = "dark")
                /\ themeTabs'[t].htmlDark = (localTheme = "dark")
                /\ localTheme' = localTheme]_vars

\* a tab loaded a second time and came up dark from the stored value while
\* the OS prefers light, and nobody has clicked the toggle
C30_Witness ==
    /\ lastOp = "themeMount"
    /\ \A t \in Tabs : themeTabs[t].clicks = 0
    /\ themeTabs[themeTab].loads = 2
    /\ themeTabs[themeTab].isDark
    /\ localTheme = "dark"
    /\ osDark = FALSE

====
